---- MODULE Spec2Model ----
(***************************************************************************)
(* Model of skoot/preprocessing/binning.py: the boundary strategies        *)
(* (_uniform, _entropy), the _Bins boundary store with its backward        *)
(* decrement scan (assign), and BinningTransformer.fit / transform.        *)
(***************************************************************************)
EXTENDS Integers, Sequences, FiniteSets, TLC

(* ------------------------------ bounds -------------------------------- *)
\* training values of the samples are drawn from 0..MaxVal
MaxVal == 3
\* np.arange(k) samples, k in 1..MaxRange
MaxRange == 10
\* requested bin counts are drawn from 1..MaxBins
MaxBins == 4
\* length of the vectors handed to assign
MaxLen == 2
\* rows of the tables handed to fit and transform
MaxRows == 2
\* cell values of those tables are drawn from 0..MaxCell
MaxCell == 2

VARIABLES
    cols,              \* self.cols              (constructor argument)
    n_bins,            \* self.n_bins
    strategy,          \* self.strategy
    return_bin_label,  \* self.return_bin_label
    overwrite,         \* self.overwrite
    as_df,             \* self.as_df
    has_bins_,         \* hasattr(self, "bins_")
    bins_,             \* self.bins_    : column name -> _Bins
    fit_cols_,         \* self.fit_cols_: list of column names
    ever_fit,          \* history: some fit call has returned normally
    bin_,              \* a _Bins object under direct use
    last               \* the last call: its arguments and what it returned or raised

config == <<cols, n_bins, strategy, return_bin_label, overwrite, as_df>>
FitState == <<has_bins_, bins_, fit_cols_>>
vars == <<cols, n_bins, strategy, return_bin_label, overwrite, as_df,
          has_bins_, bins_, fit_cols_, ever_fit, bin_, last>>

(* ------------------------- float64 values ----------------------------- *)
Fin(n) == [k |-> "fin", n |-> n]
NegInf == [k |-> "-inf", n |-> 0]
PosInf == [k |-> "inf", n |-> 0]
NaN == [k |-> "nan", n |-> 0]

\* mutant of GE: > in place of >=
GEStrict(v, b) ==
    IF v.k = "nan" \/ b.k = "nan" THEN FALSE
    ELSE IF b.k = "-inf" THEN v.k # "-inf"
    ELSE IF v.k = "inf" THEN b.k # "inf"
    ELSE IF v.k = "-inf" \/ b.k = "inf" THEN FALSE
    ELSE v.n > b.n

\* numpy's  v >= boundary  on float64: every comparison with nan is False
GE(v, b) ==
    IF v.k = "nan" \/ b.k = "nan" THEN FALSE
    ELSE IF b.k = "-inf" THEN TRUE
    ELSE IF v.k = "inf" THEN TRUE
    ELSE IF v.k = "-inf" \/ b.k = "inf" THEN FALSE
    ELSE v.n >= b.n

\* "%.2f" % x  for an integer-valued x
Fmt2(x) == ToString(x) \o ".00"

(* ----------------------------- helpers -------------------------------- *)
Range(s) == {s[i] : i \in DOMAIN s}
Min(S) == CHOOSE m \in S : \A y \in S : m <= y
MinOf(a, c) == IF a <= c THEN a ELSE c

RECURSIVE Asc(_)
\* the elements of a finite set of integers, ascending
Asc(S) == IF S = {} THEN <<>> ELSE <<Min(S)>> \o Asc(S \ {Min(S)})

Rev(s) == [i \in 1..Len(s) |-> s[Len(s) + 1 - i]]

\* s[lo:hi] of Python (0-based, hi exclusive), clipped to the sequence
Slice(s, lo, hi) ==
    LET h == MinOf(hi, Len(s))
    IN  IF lo >= h THEN <<>> ELSE [i \in 1..(h - lo) |-> s[lo + i]]

\* seq[i] of Python for a 0-based index i, negative indices counting from the end
PyIndex(s, i) == IF i >= 0 THEN s[i + 1] ELSE s[Len(s) + i + 1]

\* np.unique(x): the sorted distinct values
np_unique(x) == Asc(Range(x))

\* utils.iterables.chunk(v, n): n contiguous groups of near-equal size, the
\* earlier groups one longer when len(v) is not a multiple of n
chunk(v, n) ==
    LET k == Len(v) \div n
        m == Len(v) % n
    IN  [i \in 1..n |-> Slice(v, (i - 1) * k + MinOf(i - 1, m), i * k + MinOf(i, m))]

\* the groups cut out of the ascending sequence u after the positions in C
SplitAt(u, C) ==
    LET cuts == Asc(C \cup {0, Len(u)})
    IN  [i \in 1..(Len(cuts) - 1) |-> Slice(u, cuts[i], cuts[i + 1])]

\* every way to cut an ascending sequence into contiguous non-empty groups
Groupings(u) == {SplitAt(u, C) : C \in SUBSET (1..(Len(u) - 1))}

(* ------------------------------ _Bins --------------------------------- *)
NoBins == [n_bins |-> 0, lower_bounds |-> <<>>, upper_bounds |-> <<>>, reprs |-> <<>>]

\* mutant of LowerBound: the first bin's lower bound taken from its own chunk
LowerBoundOwnChunk(chunks, i) == Fin(chunks[i][1])

\* lower bound stored for bin i (1-based) of n: the last bin is appended after
\* the loop, the first bin of the loop gets -inf
LowerBound(chunks, i) ==
    IF i = Len(chunks) THEN Fin(chunks[i][1])
    ELSE IF i = 1 THEN NegInf
    ELSE Fin(chunks[i][1])

\* mutant of UpperBound: the bin's own largest value instead of the next chunk's first
UpperBoundOwnMax(chunks, i) ==
    IF i = Len(chunks) THEN PosInf ELSE Fin(chunks[i][Len(chunks[i])])

UpperBound(chunks, i) ==
    IF i = Len(chunks) THEN PosInf ELSE Fin(chunks[i + 1][1])

Repr(chunks, i) ==
    IF i = Len(chunks) THEN "(" \o Fmt2(chunks[i][1]) \o ", Inf]"
    ELSE IF i = 1 THEN "(-Inf, " \o Fmt2(chunks[i + 1][1]) \o "]"
    ELSE "(" \o Fmt2(chunks[i][1]) \o ", " \o Fmt2(chunks[i + 1][1]) \o "]"

\* _Bins.__init__(chunks)
_Bins(chunks) ==
    [n_bins       |-> Len(chunks),
     lower_bounds |-> [i \in 1..Len(chunks) |-> LowerBound(chunks, i)],
     upper_bounds |-> [i \in 1..Len(chunks) |-> UpperBound(chunks, i)],
     reprs        |-> [i \in 1..Len(chunks) |-> Repr(chunks, i)]]

\* mutant of Decrement: the mask is not inverted
DecrementMasked(bins, v, boundary) ==
    [e \in DOMAIN v |-> IF GE(v[e], boundary) THEN bins[e] - 1 ELSE bins[e]]

\* one pass of the loop of assign: decrement where the value is not >= boundary
Decrement(bins, v, boundary) ==
    [e \in DOMAIN v |-> IF GE(v[e], boundary) THEN bins[e] ELSE bins[e] - 1]

RECURSIVE Scan(_, _, _, _)
\* the loop over lower_bounds[::-1], from position j down to 1
Scan(b, v, j, bins) ==
    IF j = 0 THEN bins
    ELSE Scan(b, v, j - 1, Decrement(bins, v, b.lower_bounds[j]))

\* the bin levels assign computes before it looks at as_str
Levels(b, v) == Scan(b, v, b.n_bins, [e \in DOMAIN v |-> b.n_bins - 1])

\* _Bins.assign(v, as_str)
assign(b, v, as_str) ==
    LET bins == Levels(b, v)
    IN  IF as_str THEN [e \in DOMAIN v |-> PyIndex(b.reprs, bins[e])] ELSE bins

(* --------------------------- strategies ------------------------------- *)
Raised(e) == [err |-> e, bins |-> NoBins]
Returned(b) == [err |-> "none", bins |-> b]

\* _validate_n_bins(x, n): does it raise?
_validate_n_bins(x, n) == Len(np_unique(x)) < n

\* mutant of _uniform: as many bins as there are distinct values, when fewer than n
_uniformFewerBins(x, n) ==
    Returned(_Bins(chunk(np_unique(x), MinOf(n, Len(np_unique(x))))))

\* _uniform(x, n)
_uniform(x, n) ==
    IF _validate_n_bins(x, n) THEN Raised("ValueError")
    ELSE Returned(_Bins(chunk(np_unique(x), n)))

\* entropy_bin_bounds(x, unique, cts): the compiled routine is handed the
\* distinct values and their counts, not n; it returns ordered groups of them
entropy_bin_bounds(x) == Groupings(np_unique(x))

\* _entropy(x, n): the set of its possible outcomes
_entropy(x, n) ==
    IF _validate_n_bins(x, n) THEN {Raised("ValueError")}
    ELSE {Returned(_Bins(g)) : g \in entropy_bin_bounds(x)}

_STRATEGIES == {"entropy", "uniform"}

\* binner(x, n) for binner = _STRATEGIES[s]
Binner(s, x, n) == IF s = "uniform" THEN {_uniform(x, n)} ELSE _entropy(x, n)

(* ------------------- direct use of the strategies --------------------- *)
Arange(k) == [i \in 1..k |-> i - 1]
SortedSamples == {Asc(S) : S \in (SUBSET (0..MaxVal)) \ {{}}}
\* samples: ascending, unsorted with repeats, and np.arange(k)
Samples == SortedSamples \cup {Rev(s) \o s : s \in SortedSamples}
UniformSamples == Samples \cup {Arange(k) : k \in 1..MaxRange}
\* ascending non-empty groups of distinct values
Groups == UNION {Groupings(s) : s \in SortedSamples}
\* values handed to assign: in and out of the training range, and non-finite
Vals == {Fin(n) : n \in -1..(MaxVal + 1)} \cup {NegInf, PosInf, NaN}
Vectors == UNION {[1..l -> Vals] : l \in 1..MaxLen}

NoEngine ==
    /\ cols = <<>> /\ n_bins = 0 /\ strategy = "uniform"
    /\ return_bin_label = TRUE /\ overwrite = TRUE /\ as_df = TRUE
    /\ has_bins_ = FALSE /\ bins_ = <<>> /\ fit_cols_ = <<>>
    /\ ever_fit = FALSE

InitBins == NoEngine /\ bin_ = NoBins /\ last = [op |-> "init"]

BinsNew ==
    /\ last.op = "init"
    /\ \E chunks \in Groups :
        /\ bin_' = _Bins(chunks)
        /\ last' = [op |-> "_Bins", chunks |-> chunks]
        /\ UNCHANGED <<config, FitState, ever_fit>>

UniformCall ==
    /\ last.op = "init"
    /\ \E x \in UniformSamples, n \in 1..MaxBins :
        LET r == _uniform(x, n)
        IN  /\ bin_' = r.bins
            /\ last' = [op |-> "_uniform", x |-> x, n |-> n, err |-> r.err,
                        chunks |-> IF r.err = "none" THEN chunk(np_unique(x), n) ELSE <<>>]
            /\ UNCHANGED <<config, FitState, ever_fit>>

EntropyCall ==
    /\ last.op = "init"
    /\ \E x \in Samples, n \in 1..MaxBins :
        \E r \in _entropy(x, n) :
            /\ bin_' = r.bins
            /\ last' = [op |-> "_entropy", x |-> x, n |-> n, err |-> r.err]
            /\ UNCHANGED <<config, FitState, ever_fit>>

AssignCall ==
    /\ last.op = "_Bins"
    /\ \E v \in Vectors, as_str \in BOOLEAN :
        /\ last' = [op |-> "assign", v |-> v, as_str |-> as_str,
                    out |-> assign(bin_, v, as_str)]
        /\ UNCHANGED <<config, FitState, ever_fit, bin_>>

\* the training column itself handed to the bins _uniform made of it
AssignTraining ==
    /\ last.op = "_uniform" /\ last.err = "none"
    /\ last' = [op |-> "assign_training", x |-> last.x, n |-> last.n,
                chunks |-> last.chunks,
                out |-> assign(bin_, [e \in DOMAIN last.x |-> Fin(last.x[e])], FALSE)]
    /\ UNCHANGED <<config, FitState, ever_fit, bin_>>

NextBins == BinsNew \/ UniformCall \/ EntropyCall \/ AssignCall \/ AssignTraining

SpecBins == InitBins /\ [][NextBins]_vars

(* ------------------------------ tables -------------------------------- *)
\* a table: its column names in order, and each column's values by row
Table(columns, data) == [columns |-> columns, data |-> data]
NRows(X) == Len(X.data[X.columns[1]])
\* X.values: the rows of the backing array
ValuesOf(X) ==
    [r \in 1..NRows(X) |-> [j \in 1..Len(X.columns) |-> X.data[X.columns[j]][r]]]
\* X[col].values of a training column, as plain numbers
Raw(column) == [i \in 1..Len(column) |-> column[i].n]
\* X[name] = binned: replaces the column, or appends it on the right
SetColumn(X, name, binned) ==
    IF name \in Range(X.columns)
    THEN [X EXCEPT !.data[name] = binned]
    ELSE Table(Append(X.columns, name),
               [c \in DOMAIN X.data \cup {name} |->
                   IF c = name THEN binned ELSE X.data[c]])

\* check_dataframe(X, cols, assert_all_finite): does it raise?
check_dataframe(X, cs, assert_all_finite) ==
    \/ \E i \in 1..Len(cs) : cs[i] \notin Range(X.columns)
    \/ /\ assert_all_finite
       /\ \E c \in Range(X.columns) : \E r \in 1..NRows(X) : X.data[c][r].k # "fin"

\* validate_test_set_columns(cols, X.columns): does it raise?
validate_test_set_columns(cs, columns) ==
    \E i \in 1..Len(cs) : cs[i] \notin Range(columns)

(* ------------------------ BinningTransformer -------------------------- *)
\* a bin count as written by the user: an int, or something else (2.5)
Count(n) == [int |-> TRUE, v |-> n]
NotInt(n) == [int |-> FALSE, v |-> n]
\* the n_bins argument: one number, a sequence, or a dict (its items in order)
Single(c) == [kind |-> IF c.int THEN "int" ELSE "other", items |-> << <<"", c>> >>]
SeqOf(cs) == [kind |-> "seq", items |-> [i \in 1..Len(cs) |-> <<"", cs[i]>>]]
DictOf(items) == [kind |-> "dict", items |-> items]
Keys(items) == {items[i][1] : i \in 1..Len(items)}

Failed(e) == [err |-> e, items |-> <<>>]
\* mutant of NormalizeNBins: a dict of the right size is taken as it is
NormalizeNBinsKeysUnchecked(nb, cs) ==
    IF nb.kind \in {"seq", "dict"}
    THEN IF Len(nb.items) # Len(cs) THEN Failed("ValueError")
         ELSE IF nb.kind = "dict" THEN [err |-> "none", items |-> nb.items]
         ELSE [err |-> "none",
               items |-> [i \in 1..Len(cs) |-> <<cs[i], nb.items[i][2]>>]]
    ELSE IF nb.kind # "int" THEN Failed("TypeError")
    ELSE [err |-> "none", items |-> [i \in 1..Len(cs) |-> <<cs[i], nb.items[1][2]>>]]

\* fit, "validate n_bins": the column -> count dictionary, or the error raised
NormalizeNBins(nb, cs) ==
    IF nb.kind \in {"seq", "dict"}
    THEN IF Len(nb.items) # Len(cs) THEN Failed("ValueError")
         ELSE IF nb.kind = "dict"
              THEN IF (Range(cs) \ Keys(nb.items)) # {} \/ (Keys(nb.items) \ Range(cs)) # {}
                   THEN Failed("ValueError")
                   ELSE [err |-> "none", items |-> nb.items]
              ELSE [err |-> "none",
                    items |-> [i \in 1..Len(cs) |-> <<cs[i], nb.items[i][2]>>]]
    ELSE IF nb.kind # "int" THEN Failed("TypeError")
    ELSE [err |-> "none", items |-> [i \in 1..Len(cs) |-> <<cs[i], nb.items[1][2]>>]]

\* mutant of BadCount: "or" in place of "and"
BadCountEither(items) ==
    \E i \in 1..Len(items) : ~(items[i][2].int \/ items[i][2].v > 1)

\* fit, "assess the actual integer": does some count fail  isinstance(v, int) and v > 1 ?
BadCount(items) ==
    \E i \in 1..Len(items) : ~(items[i][2].int /\ items[i][2].v > 1)

RECURSIVE FitLoop(_, _, _, _, _)
\* fit, "compute the bins for each feature": the loop from item k on, with the
\* local dict bins filled so far; the set of ways it can end, each with the
\* number of calls of binner made by then
FitLoop(items, X, s, k, bins) ==
    IF k > Len(items) THEN {[err |-> "none", bins |-> bins, calls |-> k - 1]}
    ELSE LET c == items[k][1]
             n == items[k][2].v
         IN  IF c \notin Range(X.columns)
             THEN {[err |-> "KeyError", bins |-> bins, calls |-> k - 1]}
             ELSE UNION {
                 IF r.err # "none" THEN {[err |-> r.err, bins |-> bins, calls |-> k]}
                 ELSE FitLoop(items, X, s, k + 1,
                              [d \in DOMAIN bins \cup {c} |->
                                  IF d = c THEN r.bins ELSE bins[d]])
                 : r \in Binner(s, Raw(X.data[c]), n)}

\* fit raised before its loop: the local dict bins does not exist yet
NoCalls(e) == [err |-> e, bins |-> <<>>, calls |-> 0]

\* BinningTransformer.fit up to its last two assignments: every way the call
\* can end, with the local dict bins as it is then
FitOutcomes(cs, nb, s, X) ==
    IF check_dataframe(X, cs, TRUE) THEN {NoCalls("ValidationError")}
    ELSE LET norm == NormalizeNBins(nb, cs)
         IN  IF norm.err # "none" THEN {NoCalls(norm.err)}
             ELSE IF BadCount(norm.items) THEN {NoCalls("ValueError")}
             ELSE IF s \notin _STRATEGIES THEN {NoCalls("ValueError")}
             ELSE FitLoop(norm.items, X, s, 1, <<>>)

\* mutant of FitStore: the loop writes into self.bins_ as it goes
FitStoreAsItGoes(o, cs, old) ==
    IF o.err = "none"
    THEN [has_bins_ |-> TRUE, bins_ |-> o.bins, fit_cols_ |-> cs]
    ELSE IF DOMAIN o.bins = {} THEN old
    ELSE [has_bins_ |-> TRUE,
          bins_ |-> [d \in DOMAIN old.bins_ \cup DOMAIN o.bins |->
                        IF d \in DOMAIN o.bins THEN o.bins[d] ELSE old.bins_[d]],
          fit_cols_ |-> old.fit_cols_]

\* fit, "set the instance attribute": the FitState the call leaves behind
FitStore(o, cs, old) ==
    IF o.err = "none"
    THEN [has_bins_ |-> TRUE, bins_ |-> o.bins, fit_cols_ |-> cs]
    ELSE old

\* mutant of AfterAssign: lower_bounds.reverse() in place of lower_bounds[::-1]
AfterAssignReversed(b) == [b EXCEPT !.lower_bounds = Rev(b.lower_bounds)]

\* the _Bins object after assign: the scan reads a reversed copy of lower_bounds
AfterAssign(b) == b

RECURSIVE TransformLoop(_, _, _, _, _, _)
\* transform, "now apply the binning": the loop over the fit columns from k on
TransformLoop(X, cs, bins, label, over, k) ==
    IF k > Len(cs) THEN X
    ELSE LET col == cs[k]
             binned == assign(bins[col], X.data[col], label)
         IN  TransformLoop(
                 SetColumn(X, IF over THEN col ELSE col \o "_binned", binned),
                 cs, bins, label, over, k + 1)

NoOut == <<>>
\* mutant of TransformOutcome: no check_is_fitted
TransformOutcomeUnchecked(X, cs, fitted, bins, fcs, label, over, df) ==
    IF check_dataframe(X, cs, FALSE) THEN [err |-> "ValidationError", out |-> NoOut]
    ELSE IF ~fitted THEN [err |-> "none", out |-> IF df THEN X ELSE ValuesOf(X)]
    ELSE IF validate_test_set_columns(fcs, X.columns)
         THEN [err |-> "MissingColumnError", out |-> NoOut]
    ELSE LET T == TransformLoop(X, fcs, bins, label, over, 1)
         IN  [err |-> "none", out |-> IF df THEN T ELSE ValuesOf(T)]

\* BinningTransformer.transform: the error raised or the value returned
TransformOutcome(X, cs, fitted, bins, fcs, label, over, df) ==
    IF ~fitted THEN [err |-> "NotFittedError", out |-> NoOut]
    ELSE IF check_dataframe(X, cs, FALSE) THEN [err |-> "ValidationError", out |-> NoOut]
    ELSE IF validate_test_set_columns(fcs, X.columns)
         THEN [err |-> "MissingColumnError", out |-> NoOut]
    ELSE LET T == TransformLoop(X, fcs, bins, label, over, 1)
         IN  [err |-> "none", out |-> IF df THEN T ELSE ValuesOf(T)]

\* the _Bins objects after transform called assign on each fit column
TransformBins(fitted, bins, fcs, err) ==
    IF err # "none" THEN bins
    ELSE [d \in DOMAIN bins |-> IF d \in Range(fcs) THEN AfterAssign(bins[d]) ELSE bins[d]]

(* ----------------------------- the engine ----------------------------- *)
\* the first feature: numbers, or a missing value
ACells == {Fin(n) : n \in 0..MaxCell} \cup {NaN}
\* the second feature is two-valued
BCells == {Fin(0), Fin(1)}
\* a feature the caller's table already carries under the name a_binned
KeptCells == {Fin(0)}
Tables ==
    UNION {
        {Table(<<"a">>, [c \in {"a"} |-> sa]) : sa \in [1..r -> ACells]}
        \cup {Table(<<"a", "a_binned">>,
                    [c \in {"a", "a_binned"} |-> IF c = "a" THEN sa ELSE sk])
                : sa \in [1..r -> ACells], sk \in [1..r -> KeptCells]}
        \cup {Table(<<"b">>, [c \in {"b"} |-> sb]) : sb \in [1..r -> BCells]}
        \cup {Table(<<"a", "b">>, [c \in {"a", "b"} |-> IF c = "a" THEN sa ELSE sb])
                : sa \in [1..r -> ACells], sb \in [1..r -> BCells]}
        : r \in 1..MaxRows}

ColsChoices == {<<"a">>, <<"a", "b">>}
NBinsChoices ==
    {Single(Count(1)), Single(Count(2)), Single(Count(3)), Single(NotInt(2)),
     SeqOf(<<Count(2)>>), SeqOf(<<Count(3), Count(2)>>), SeqOf(<<Count(2), Count(1)>>),
     SeqOf(<<Count(2), NotInt(2)>>),
     DictOf(<< <<"a", Count(2)>> >>),
     DictOf(<< <<"b", Count(2)>>, <<"a", Count(3)>> >>),
     DictOf(<< <<"a", Count(2)>>, <<"c", Count(2)>> >>),
     DictOf(<< <<"a", Count(2)>>, <<"b", Count(1)>> >>),
     DictOf(<< <<"a", Count(2)>>, <<"b", Count(2)>>, <<"c", Count(2)>> >>)}
StrategyChoices == _STRATEGIES \cup {"kmeans"}

\* BinningTransformer.__init__: every n_bins and strategy with the default
\* output flags, and every choice of output flags with two uniform bins
Init ==
    /\ cols \in ColsChoices
    /\ n_bins \in NBinsChoices
    /\ strategy \in StrategyChoices
    /\ return_bin_label \in BOOLEAN
    /\ overwrite \in BOOLEAN
    /\ as_df \in BOOLEAN
    /\ \/ return_bin_label /\ overwrite /\ as_df
       \/ n_bins = Single(Count(2)) /\ strategy = "uniform"
    /\ has_bins_ = FALSE /\ bins_ = <<>> /\ fit_cols_ = <<>>
    /\ ever_fit = FALSE
    /\ bin_ = NoBins
    /\ last = [op |-> "idle"]

\* a call of fit(X)
Fit ==
    /\ last.op = "idle"
    /\ \E X \in Tables :
        \E o \in FitOutcomes(cols, n_bins, strategy, X) :
            LET new == FitStore(o, cols,
                                [has_bins_ |-> has_bins_, bins_ |-> bins_,
                                 fit_cols_ |-> fit_cols_])
            IN  /\ has_bins_' = new.has_bins_
                /\ bins_' = new.bins_
                /\ fit_cols_' = new.fit_cols_
                /\ ever_fit' = (ever_fit \/ o.err = "none")
                /\ last' = [op |-> "fit", X |-> X, err |-> o.err, calls |-> o.calls]
                /\ UNCHANGED <<config, bin_>>

\* a call of transform(X)
Transform ==
    /\ last.op = "idle"
    /\ \E X \in Tables :
        LET o == TransformOutcome(X, cols, has_bins_, bins_, fit_cols_,
                                  return_bin_label, overwrite, as_df)
        IN  /\ bins_' = TransformBins(has_bins_, bins_, fit_cols_, o.err)
            /\ last' = [op |-> "transform", X |-> X, err |-> o.err, out |-> o.out]
            /\ UNCHANGED <<config, has_bins_, fit_cols_, ever_fit, bin_>>

\* fit or transform has returned or raised, and the caller goes on
CallerResumes ==
    /\ last.op \in {"fit", "transform"}
    /\ last' = [op |-> "idle"]
    /\ UNCHANGED <<config, FitState, ever_fit, bin_>>

Next == Fit \/ Transform \/ CallerResumes

Spec == Init /\ [][Next]_vars

(* ------------------------ properties of _Bins ------------------------- *)
AssignedLevels == last.op = "assign" /\ ~last.as_str
\* the 0-based indices i with v >= lower_bounds[i]
Satisfied(b, x) == {i \in 0..(b.n_bins - 1) : GE(x, b.lower_bounds[i + 1])}
NonDecreasing(s) == \A i \in 1..(Len(s) - 1) : GE(s[i + 1], s[i])

\* C1: for a _Bins of n_bins >= 2 groups and every input value, assign with
\* as_str=False returns a bin index i with 0 <= i <= n_bins - 1.
C1_IndexInRange ==
    (AssignedLevels /\ bin_.n_bins >= 2) =>
        \A e \in DOMAIN last.v : last.out[e] \in 0..(bin_.n_bins - 1)

\* what assign does hold to: the index is out of range for nan and nothing else
C1_OutOfRangeOnlyForNaN ==
    (AssignedLevels /\ bin_.n_bins >= 2) =>
        \A e \in DOMAIN last.v :
            /\ last.v[e] # NaN => last.out[e] \in 0..(bin_.n_bins - 1)
            /\ last.v[e] = NaN => last.out[e] = -1

\* C2: for a _Bins built from ascending groups and every input value v, the
\* index the backward decrement scan produces is the largest index i such
\* that v >= lower_bounds[i].
C2_LargestSatisfiedBound ==
    (AssignedLevels /\ bin_.n_bins >= 2) =>
        \A e \in DOMAIN last.v :
            /\ last.out[e] \in Satisfied(bin_, last.v[e])
            /\ \A i \in Satisfied(bin_, last.v[e]) : i <= last.out[e]

\* C3: bin assignment is monotonic: for any two values v1 <= v2 handed to the
\* same _Bins, the index of v1 is at most the index of v2.
C3_Monotonic ==
    AssignedLevels =>
        \A e1, e2 \in DOMAIN last.v :
            GE(last.v[e2], last.v[e1]) => last.out[e1] <= last.out[e2]

C3_Witness ==
    /\ AssignedLevels /\ bin_.n_bins >= 3
    /\ \E e1, e2 \in DOMAIN last.v :
        /\ GE(last.v[e2], last.v[e1])
        /\ last.v[e1] # last.v[e2]
        /\ 0 < last.out[e1] /\ last.out[e1] < last.out[e2]

UniformOnArange10 ==
    last.op = "_uniform" /\ last.x = Arange(10) /\ last.n = 4

\* C8 as claimed: _uniform with n=4 on 0..9 groups the values as
\* [0,1,2],[3,4,5],[6,7],[8,9], and bin 0 is (-Inf, 3], bin 1 is (0, 6].
C8_AsClaimed ==
    UniformOnArange10 =>
        /\ last.err = "none"
        /\ last.chunks = << <<0, 1, 2>>, <<3, 4, 5>>, <<6, 7>>, <<8, 9>> >>
        /\ bin_.lower_bounds[1] = NegInf /\ bin_.upper_bounds[1] = Fin(3)
        /\ bin_.lower_bounds[2] = Fin(0) /\ bin_.upper_bounds[2] = Fin(6)

\* C8 amended: the groups are [0,1,2],[3,4,5],[6,7],[8,9]; bin 0 is
\* (-Inf, 3] and bin 1 is (3, 6], labelled "(-Inf, 3.00]" and "(3.00, 6.00]".
C8_UniformExample ==
    UniformOnArange10 =>
        /\ last.err = "none"
        /\ last.chunks = << <<0, 1, 2>>, <<3, 4, 5>>, <<6, 7>>, <<8, 9>> >>
        /\ bin_.lower_bounds[1] = NegInf /\ bin_.upper_bounds[1] = Fin(3)
        /\ bin_.lower_bounds[2] = Fin(3) /\ bin_.upper_bounds[2] = Fin(6)
        /\ bin_.reprs[1] = "(-Inf, 3.00]" /\ bin_.reprs[2] = "(3.00, 6.00]"

C8_Witness == UniformOnArange10 /\ bin_.n_bins = 4

\* C10: a _Bins constructed from n_bins >= 2 non-empty ascending groups has
\* as many upper bounds, lower bounds and labels as groups, its first lower
\* bound is -inf, its last upper bound is +inf, and both bound lists are
\* non-decreasing.
C10_BoundsShape ==
    (last.op = "_Bins" /\ Len(last.chunks) >= 2) =>
        /\ bin_.n_bins = Len(last.chunks)
        /\ Len(bin_.upper_bounds) = bin_.n_bins
        /\ Len(bin_.lower_bounds) = bin_.n_bins
        /\ Len(bin_.reprs) = bin_.n_bins
        /\ bin_.lower_bounds[1] = NegInf
        /\ bin_.upper_bounds[bin_.n_bins] = PosInf
        /\ NonDecreasing(bin_.lower_bounds)
        /\ NonDecreasing(bin_.upper_bounds)

C10_Witness ==
    /\ last.op = "_Bins" /\ Len(last.chunks) >= 3
    /\ bin_.lower_bounds[2] # bin_.lower_bounds[3]

\* C13: handed the column it was made of, the _Bins of _uniform(x, n) gives
\* a value of group i (counted from 0) of chunk(np.unique(x), n) the index i,
\* so each index 0..n-1 is given to some training value.
C13_UniformRoundTrip ==
    last.op = "assign_training" =>
        /\ Len(last.chunks) = last.n
        /\ \A e \in DOMAIN last.x : \A i \in 1..last.n :
               last.x[e] \in Range(last.chunks[i]) => last.out[e] = i - 1
        /\ Range(last.out) = 0..(last.n - 1)

C13_Witness ==
    /\ last.op = "assign_training" /\ last.n >= 3
    /\ Len(np_unique(last.x)) > last.n
    /\ Len(last.x) > Len(np_unique(last.x))
    /\ last.x # np_unique(last.x)
    /\ Range(last.out) = 0..(last.n - 1)

(* --------------------- properties of the engine ----------------------- *)
FitCalled == last.op = "idle" /\ last'.op = "fit"
TransformCalled == last.op = "idle" /\ last'.op = "transform"
\* every finite bound of b is a value of the column
BoundsFrom(b, column) ==
    /\ b.n_bins >= 1
    /\ \A i \in 1..b.n_bins :
        /\ b.lower_bounds[i].k = "fin" => b.lower_bounds[i] \in Range(column)
        /\ b.upper_bounds[i].k = "fin" => b.upper_bounds[i] \in Range(column)

\* C4: a fit call that fails leaves bins_ and fit_cols_ as they were; a fit
\* call that succeeds replaces both: fit_cols_ is the configured columns,
\* bins_ has exactly one entry per configured column, and every entry's
\* bounds are values of that call's table.
C4_FitAtomic ==
    [][FitCalled =>
        IF last'.err # "none"
        THEN UNCHANGED FitState
        ELSE /\ has_bins_'
             /\ fit_cols_' = cols
             /\ DOMAIN bins_' = Range(cols)
             /\ \A c \in Range(cols) : BoundsFrom(bins_'[c], last'.X.data[c])]_vars

C4_Witness == last.op = "fit" /\ last.err = "ValueError" /\ has_bins_

\* C5: a transform call made before any fit has succeeded fails with
\* NotFittedError and returns nothing; one made after a successful fit is
\* not rejected as not fitted.
C5_NotFitted ==
    last.op = "transform" =>
        IF ever_fit THEN last.err # "NotFittedError"
        ELSE last.err = "NotFittedError" /\ last.out = NoOut

C5_Witness == last.op = "transform" /\ ~ever_fit

\* the counts fit was asked for are in order, and the table has a configured
\* column with fewer distinct values than the count asked for it
TooFewDistinct(X) ==
    LET norm == NormalizeNBins(n_bins, cols)
    IN  /\ norm.err = "none"
        /\ ~BadCount(norm.items)
        /\ \E i \in 1..Len(norm.items) :
            /\ norm.items[i][1] \in Range(X.columns)
            /\ Cardinality(Range(X.data[norm.items[i][1]])) < norm.items[i][2].v

\* C6: when a configured column has fewer distinct values than the bin count
\* requested for it, fit fails, under either strategy, and stores nothing.
C6_TooFewDistinctFails ==
    [][(FitCalled /\ TooFewDistinct(last'.X)) =>
        (last'.err # "none" /\ UNCHANGED FitState)]_vars

C6_Witness ==
    /\ last.op = "fit" /\ TooFewDistinct(last.X)
    /\ strategy = "entropy" /\ last.err = "ValueError" /\ has_bins_

\* C7: with n_bins a dict whose keys are not exactly the configured columns,
\* or a sequence whose length is not the number of configured columns, fit
\* fails (with ValueError once the table itself is accepted); a fit that
\* succeeds with a dict had keys equal to the column set.
C7_NBinsShape ==
    last.op = "fit" =>
        /\ (\/ n_bins.kind = "dict" /\ Keys(n_bins.items) # Range(cols)
            \/ n_bins.kind = "seq" /\ Len(n_bins.items) # Len(cols))
           => /\ last.err # "none"
              /\ ~check_dataframe(last.X, cols, TRUE) => last.err = "ValueError"
        /\ (n_bins.kind = "dict" /\ last.err = "none")
           => Keys(n_bins.items) = Range(cols)

C7_Witness ==
    /\ last.op = "fit" /\ n_bins.kind = "dict"
    /\ Len(n_bins.items) = Len(cols) /\ Keys(n_bins.items) # Range(cols)
    /\ ~check_dataframe(last.X, cols, TRUE) /\ last.err = "ValueError"

\* C9: a transform call, whether it returns or raises, leaves bins_,
\* fit_cols_ and the configuration as they were, and transform called again
\* on the same table returns what this call returned.
C9_TransformReadOnly ==
    [][TransformCalled =>
        /\ UNCHANGED <<FitState, config>>
        /\ LET again == TransformOutcome(last'.X, cols', has_bins_', bins_', fit_cols_',
                                         return_bin_label', overwrite', as_df')
           IN  again.err = last'.err /\ again.out = last'.out]_vars

C9_Witness == last.op = "transform" /\ last.err = "none" /\ ~overwrite

\* the bin counts fit is asked for, one per configured column, once n_bins
\* has the shape the columns need
RequestedCounts ==
    IF n_bins.kind \in {"seq", "dict"}
    THEN IF Len(n_bins.items) = Len(cols)
            /\ (n_bins.kind = "dict" => Keys(n_bins.items) = Range(cols))
         THEN {n_bins.items[i][2] : i \in 1..Len(n_bins.items)}
         ELSE {}
    ELSE {n_bins.items[1][2]}
NotACount(c) == ~c.int \/ c.v <= 1

\* C11: when the bin count asked for some configured column is not an
\* integer or is <= 1, fit fails without one call of the strategy; a fit
\* that succeeds was asked for an integer >= 2 for every column.
C11_BadCountFailsFirst ==
    last.op = "fit" =>
        /\ (\E c \in RequestedCounts : NotACount(c))
           => last.err # "none" /\ last.calls = 0
        /\ last.err = "none"
           => /\ RequestedCounts # {}
              /\ \A c \in RequestedCounts : c.int /\ c.v >= 2

C11_Witness ==
    /\ last.op = "fit" /\ n_bins.kind = "dict"
    /\ \E c \in RequestedCounts : NotACount(c)
    /\ strategy \in _STRATEGIES /\ ~check_dataframe(last.X, cols, TRUE)
    /\ Cardinality(Range(last.X.data["a"])) >= 2
    /\ last.err = "ValueError"

\* the rows transform returned, whichever way as_df had them presented
ReturnedRows == IF as_df THEN ValuesOf(last.out) ELSE last.out
ReturnedColumn(j) == [r \in 1..Len(ReturnedRows) |-> ReturnedRows[r][j]]
Width == Len(ReturnedRows[1])
BinnedNames == [i \in 1..Len(fit_cols_) |-> fit_cols_[i] \o "_binned"]
Binned(c) == assign(bins_[c], last.X.data[c], return_bin_label)

\* C12: the table transform returns has the rows of the input; with
\* overwrite each fit column holds its assigned bins and no column is added;
\* without it the input columns are all unchanged and one new column
\* c_binned per fit column, in fit order, holds the bins assigned to c.
\* Columns that were not fit are unchanged in both modes.
C12_FrameAsClaimed ==
    (last.op = "transform" /\ last.err = "none") =>
        LET X  == last.X
            nc == Len(X.columns)
        IN  /\ Len(ReturnedRows) = NRows(X)
            /\ Width = IF overwrite THEN nc ELSE nc + Len(fit_cols_)
            /\ as_df => last.out.columns =
                            IF overwrite THEN X.columns ELSE X.columns \o BinnedNames
            /\ \A j \in 1..nc :
                   ReturnedColumn(j) =
                       IF overwrite /\ X.columns[j] \in Range(fit_cols_)
                       THEN Binned(X.columns[j])
                       ELSE X.data[X.columns[j]]
            /\ ~overwrite =>
                   \A i \in 1..Len(fit_cols_) :
                       ReturnedColumn(nc + i) = Binned(fit_cols_[i])

====
